---- MODULE Spec2Model ----
\* Vibecraft integration of OpenClaw: the adapter (vibecraft-adapter.ts), the
\* simple integration (vibecraft-integration.ts) and the plugin
\* (vibecraft-plugin.ts), with the host's agent-event stream and the
\* deliveries (HTTP POST, file append) they start.
EXTENDS Integers, Sequences, FiniteSets, TLC

\* ------------------------------------------------------------------ bounds
MaxNow == 2       \* the host clock (Date.now()) runs over 1..MaxNow
MaxOps == 5       \* calls made by the host / the embedding program in one run
MaxSends == 3     \* the same, in the runs that follow the deliveries to their end

\* --------------------------------------------------------------- JS values
Undefined == "undefined"          \* the JS value undefined, for string-typed fields
None == <<>>                      \* the JS value undefined, for number-typed fields
Some(v) == <<v>>
Null == 0                         \* the null unsubscribe handle (listener ids start at 1)
EmptyObject == "{}"

\* variant: the fallback is left out
OrElseNothing(x, y) == x

\* x || y for string-typed x
OrElse(x, y) == IF x = Undefined \/ x = "" THEN y ELSE x

\* the fields JSON.stringify leaves out when they hold undefined
OptionalFields == {"duration", "response", "assistantText"}

IsUndefined(k, v) == IF k = "duration" THEN v = None ELSE v = Undefined

\* JSON.stringify(event): the fields of the event, those holding undefined omitted
JSONstringify(ev) ==
    LET keep == {k \in DOMAIN ev : ~(k \in OptionalFields /\ IsUndefined(k, ev[k]))}
    IN [k \in keep |-> ev[k]]

\* ------------------------------------------------------------ configuration
\* process.cwd() when the modules are loaded
ProcessCwd == "/proc"
EventsPath == "events.jsonl"
DefaultUrl == "http://localhost:4003/event"

\* DEFAULT_CONFIG of the adapter
AdapterDefaultConfig ==
    [enabled |-> FALSE, serverUrl |-> DefaultUrl, eventsFilePath |-> "",
     cwd |-> ProcessCwd, debug |-> FALSE]

\* variant: the simple integration is on by default
DefaultOptionsOn ==
    [enabled |-> TRUE, serverUrl |-> DefaultUrl, debug |-> FALSE, cwd |-> ProcessCwd]

\* DEFAULT_OPTIONS of the simple integration
DEFAULT_OPTIONS ==
    [enabled |-> FALSE, serverUrl |-> DefaultUrl, debug |-> FALSE, cwd |-> ProcessCwd]

\* DEFAULT_CONFIG of the plugin
PluginDefaultConfig ==
    [enabled |-> TRUE, serverUrl |-> DefaultUrl, eventsFilePath |-> "", debug |-> FALSE]

\* { ...defaults, ...user }: the user's fields override the defaults
Merge(defaults, user) ==
    [k \in DOMAIN defaults |-> IF k \in DOMAIN user THEN user[k] ELSE defaults[k]]

\* ------------------------------------------------------- correlation table
\* Map.get: the value stored, or undefined
MapGet(m, k) == IF k \in DOMAIN m THEN Some(m[k]) ELSE None

\* Map.set
MapSet(m, k, v) == [x \in DOMAIN m \cup {k} |-> IF x = k THEN v ELSE m[x]]

\* Map.clear / new Map()
EmptyMap == [x \in {} |-> 0]

\* `startTime ? a : b`: undefined and 0 are falsy
Truthy(opt) == opt # None /\ opt[1] # 0

\* ---------------------------------------------------------------- event ids
\* `${sessionId}-${Date.now()}-${random}`
generateEventId(sessionId, clock, rnd) == sessionId \o "-" \o ToString(clock) \o "-" \o rnd

\* variant: the sequence number is left out
SynthWithoutSeq(sessionId, seq) == sessionId

\* `${sessionId}-${evt.seq}`
SynthToolUseId(sessionId, seq) == sessionId \o "-" \o ToString(seq)

\* ------------------------------------------------------------ transformers
\* variant: the operands of the subtraction swapped
DurationBackwards(startTime, ts) ==
    IF Truthy(startTime) THEN Some(startTime[1] - ts) ELSE None

\* variant: 0 instead of undefined when no start time is stored
DurationOrZero(startTime, ts) ==
    IF Truthy(startTime) THEN Some(ts - startTime[1]) ELSE Some(0)

\* `startTime ? evt.ts - startTime : undefined`
ComputeDuration(startTime, ts) ==
    IF Truthy(startTime) THEN Some(ts - startTime[1]) ELSE None

NoEvent == [type |-> "null"]      \* the transformers' `return null`

\* transformAgentEvent of the adapter: the event it returns
transformAgentEvent(evt, table, cwd, clock, rnd) ==
    LET sessionId == OrElse(evt.sessionKey, evt.runId)
        baseEvent == [id |-> generateEventId(sessionId, clock, rnd),
                      timestamp |-> evt.ts, sessionId |-> sessionId, cwd |-> cwd]
        toolUseId == OrElse(evt.data.toolUseId, SynthToolUseId(sessionId, evt.seq))
    IN
    CASE evt.stream = "lifecycle" ->
           IF evt.data.phase = "start"
           THEN baseEvent @@ [type |-> "session_start", source |-> "startup"]
           ELSE IF evt.data.phase = "end"
           THEN baseEvent @@ [type |-> "stop", stopHookActive |-> FALSE,
                              response |-> evt.data.result]
           ELSE NoEvent
      [] evt.stream = "tool" ->
           IF evt.data.phase = "pre"
           THEN baseEvent @@ [type |-> "pre_tool_use", tool |-> evt.data.toolName,
                              toolInput |-> OrElse(evt.data.params, EmptyObject),
                              toolUseId |-> toolUseId,
                              assistantText |-> evt.data.assistantText]
           ELSE IF evt.data.phase = "post"
           THEN baseEvent @@ [type |-> "post_tool_use", tool |-> evt.data.toolName,
                              toolInput |-> OrElse(evt.data.params, EmptyObject),
                              toolResponse |-> OrElse(evt.data.result, EmptyObject),
                              toolUseId |-> toolUseId,
                              success |-> (evt.data.error = Undefined),
                              duration |-> ComputeDuration(MapGet(table, toolUseId), evt.ts)]
           ELSE NoEvent
      [] evt.stream = "assistant" -> NoEvent
      [] evt.stream = "error" ->
           baseEvent @@ [type |-> "notification",
                         message |-> OrElse(evt.data.error, "Unknown error"),
                         notificationType |-> "error"]
      [] OTHER -> NoEvent

\* variant: the pre event's start time is not stored
AdapterTableNotRecorded(evt, table) == table

\* variant: the entry is deleted once its post event has been transformed
AdapterTableDeleteOnPost(evt, table) ==
    LET sessionId == OrElse(evt.sessionKey, evt.runId)
        id == OrElse(evt.data.toolUseId, SynthToolUseId(sessionId, evt.seq))
    IN IF evt.stream = "tool" /\ evt.data.phase = "pre" THEN MapSet(table, id, evt.ts)
       ELSE IF evt.stream = "tool" /\ evt.data.phase = "post"
       THEN [x \in DOMAIN table \ {id} |-> table[x]]
       ELSE table

\* variant: the table is keyed by session and toolUseId
AdapterTableKeyedBySession(evt, table) ==
    LET sessionId == OrElse(evt.sessionKey, evt.runId)
        id == OrElse(evt.data.toolUseId, SynthToolUseId(sessionId, evt.seq))
    IN IF evt.stream = "tool" /\ evt.data.phase = "pre"
       THEN MapSet(table, sessionId \o ":" \o id, evt.ts)
       ELSE table

\* transformAgentEvent of the adapter: toolUseStartTime after it has run
AdapterTableAfter(evt, table) ==
    LET sessionId == OrElse(evt.sessionKey, evt.runId) IN
    IF evt.stream = "tool" /\ evt.data.phase = "pre"
    THEN MapSet(table, OrElse(evt.data.toolUseId, SynthToolUseId(sessionId, evt.seq)), evt.ts)
    ELSE table

\* transformEvent of the simple integration: the event it returns
transformEvent(evt, table, cwd, clock, rnd) ==
    LET sessionId == OrElse(evt.sessionKey, evt.runId)
        baseEvent == [id |-> generateEventId(sessionId, clock, rnd),
                      timestamp |-> evt.ts, sessionId |-> sessionId, cwd |-> cwd]
        phase == evt.data.phase
        toolName == evt.data.toolName
        toolUseId == OrElse(evt.data.toolUseId, SynthToolUseId(sessionId, evt.seq))
    IN
    IF evt.stream = "lifecycle" /\ phase = "start"
    THEN baseEvent @@ [type |-> "session_start", source |-> "startup"]
    ELSE IF evt.stream = "lifecycle" /\ phase = "end"
    THEN baseEvent @@ [type |-> "stop", stopHookActive |-> FALSE,
                       response |-> evt.data.result]
    ELSE IF evt.stream = "tool" /\ phase = "pre"
    THEN baseEvent @@ [type |-> "pre_tool_use", tool |-> toolName,
                       toolInput |-> OrElse(evt.data.params, EmptyObject),
                       toolUseId |-> toolUseId,
                       assistantText |-> evt.data.assistantText]
    ELSE IF evt.stream = "tool" /\ phase = "post"
    THEN baseEvent @@ [type |-> "post_tool_use", tool |-> toolName,
                       toolInput |-> OrElse(evt.data.params, EmptyObject),
                       toolResponse |-> OrElse(evt.data.result, EmptyObject),
                       toolUseId |-> toolUseId,
                       success |-> (evt.data.error = Undefined),
                       duration |-> ComputeDuration(MapGet(table, toolUseId), evt.ts)]
    ELSE IF evt.stream = "error"
    THEN baseEvent @@ [type |-> "notification",
                       message |-> OrElse(evt.data.error, "unknown error (zh)"),
                       notificationType |-> "error"]
    ELSE NoEvent

\* variant: the start time is stored before the phase is looked at
SimpleTableAnyPhase(evt, table) ==
    LET sessionId == OrElse(evt.sessionKey, evt.runId) IN
    IF evt.stream = "tool"
    THEN MapSet(table, OrElse(evt.data.toolUseId, SynthToolUseId(sessionId, evt.seq)), evt.ts)
    ELSE table

\* transformEvent of the simple integration: toolStartTimes after it has run
SimpleTableAfter(evt, table) ==
    LET sessionId == OrElse(evt.sessionKey, evt.runId) IN
    IF evt.stream = "tool" /\ evt.data.phase = "pre"
    THEN MapSet(table, OrElse(evt.data.toolUseId, SynthToolUseId(sessionId, evt.seq)), evt.ts)
    ELSE table

\* ------------------------------------------------------------------- state
VARIABLES
    now,                     \* Date.now() of the host
    processCwd,              \* process.cwd() of the host
    nOps,                    \* calls made so far by the host / the embedding program
    listeners,               \* agent-events: the callbacks subscribed, [id, mod]
    nextSub,                 \* agent-events: id of the next subscription
    config,                  \* adapter: config
    unsubscribeAgentEvents,  \* adapter: unsubscribeAgentEvents (listener id or Null)
    toolUseStartTime,        \* adapter: toolUseStartTime
    options,                 \* simple integration: options
    unsubscribe,             \* simple integration: unsubscribe (listener id or Null)
    toolStartTimes,          \* simple integration: toolStartTimes
    pluginConfig,            \* plugin: config
    cleanupIntegration,      \* plugin: cleanupIntegration (TRUE when it holds a function)
    hooks,                   \* plugin registry: registrations of the plugin's handlers
    cleanups,                \* the functions setup/enable have returned
    inflight,                \* deliveries started and not yet completed
    manual,                  \* position of the manual send call in progress, per module
    seenPre,                 \* history: per module, toolUseId -> the last pre event transformed
                             \*   (its ts and session, and whether the table was cleared since)
    lastOp                   \* what the last step did (its dispatches, what reached its caller)

vars == <<now, processCwd, nOps, listeners, nextSub, config, unsubscribeAgentEvents,
          toolUseStartTime, options, unsubscribe, toolStartTimes, pluginConfig,
          cleanupIntegration, hooks, cleanups, inflight, manual, seenPre, lastOp>>

adapterVars == <<config, unsubscribeAgentEvents, toolUseStartTime>>
simpleVars == <<options, unsubscribe, toolStartTimes>>
pluginVars == <<pluginConfig, cleanupIntegration, hooks>>
hostVars == <<listeners, nextSub>>

Mods == {"adapter", "simple"}
ToolIds == {"t1", "t2"}
RandomSuffixes == {"r1", "r2"}

\* ---------------------------------------------------------- source events
\* an AgentEventPayload as the host emits it: ts is Date.now()
AgentEvent(stream, phase, toolUseId, clock, seq) ==
    [runId |-> "run1", sessionKey |-> Undefined, seq |-> seq, ts |-> clock,
     stream |-> stream,
     data |-> [phase |-> phase, toolUseId |-> toolUseId, toolName |-> "Read",
               params |-> Undefined, result |-> Undefined, error |-> Undefined,
               assistantText |-> Undefined]]

\* the events of a run whose tool events carry a toolUseId
StreamEvents(clock) ==
    {AgentEvent("lifecycle", "start", Undefined, clock, 1),
     AgentEvent("assistant", Undefined, Undefined, clock, 1)}
    \cup {AgentEvent("tool", ph, t, clock, 1) : ph \in {"pre", "post"}, t \in ToolIds}

NoSource == [stream |-> "none"]

\* -------------------------------------------------------------- deliveries
\* a delivery: which module started it, POST or file append, and who awaits it
Delivery(mod, kind, waiter) == [mod |-> mod, kind |-> kind, waiter |-> waiter]

\* variant: the callback awaits the senders
AwaitedByCallback == "callback"

\* the stream callbacks call the senders without await: nobody awaits
CallbackWaiter == "none"

DeliveryTypes ==
    {Delivery(m, "post", w) : m \in Mods, w \in {"none", "callback", "manual"}}
    \cup {Delivery("adapter", "append", w) : w \in {"none", "callback"}}
    \cup {Delivery("plugin", "post", "hook")}

\* the bag of deliveries with n more of type d
StartedMore(bag, d, n) == [bag EXCEPT ![d] = @ + n]

PostOutcomes == {"ok", "non2xx", "unreachable"}
AppendOutcomes == {"ok", "unwritable"}

\* ------------------------------------------------------------ last step log
\* one dispatch of a step: the event built, whether a POST and an append were
\* started for it, with the POST body and the appended line
Dispatch(mod, out, post, append, startAt) ==
    [mod |-> mod, out |-> out, post |-> post, append |-> append,
     body |-> IF post THEN JSONstringify(out) ELSE NoEvent,
     line |-> IF append THEN <<JSONstringify(out), "\n">> ELSE <<>>,
     startAt |-> startAt]

Step(op, mod, evt, calls, threw) ==
    [op |-> op, mod |-> mod, evt |-> evt, calls |-> calls, threw |-> threw]

NoCalls == <<>>

\* the only dispatch of a step
One(call) == <<call>>

NumStarted(calls, mod, what) ==
    Cardinality({i \in DOMAIN calls : calls[i].mod = mod /\ calls[i][what]})

\* the manual send call of a module: where it stands, and its locals
Idle == [pc |-> "idle", startTime |-> 0, toolUseId |-> ""]

Init ==
    /\ now = 1
    /\ processCwd = ProcessCwd
    /\ nOps = 0
    /\ listeners = {}
    /\ nextSub = 1
    /\ config = AdapterDefaultConfig
    /\ unsubscribeAgentEvents = Null
    /\ toolUseStartTime = EmptyMap
    /\ options = DEFAULT_OPTIONS
    /\ unsubscribe = Null
    /\ toolStartTimes = EmptyMap
    /\ pluginConfig = PluginDefaultConfig
    /\ cleanupIntegration = FALSE
    /\ hooks = 0
    /\ cleanups = [m \in Mods |-> [k \in {"noop", "cleanup"} |-> [uncalled |-> 0, called |-> 0]]]
    /\ inflight = [d \in DeliveryTypes |-> 0]
    /\ manual = [m \in Mods |-> Idle]
    /\ seenPre = [m \in Mods |-> EmptyMap]
    /\ lastOp = Step("init", "none", NoSource, NoCalls, FALSE)

\* ------------------------------------------------- host event stream
\* onAgentEvent(cb): the listener set with one more callback of module mod
onAgentEvent(mod) == listeners \cup {[id |-> nextSub, mod |-> mod]}

\* the unsubscribe handle onAgentEvent returned, called: `handle?.()`
Unsubscribed(handle) == {l \in listeners : l.id # handle}

Subscribed(mod) == \E l \in listeners : l.mod = mod

\* a function setup/enable returns, counted with the ones returned before
Returned(mod, kind) ==
    [cleanups EXCEPT ![mod][kind].uncalled = @ + 1]

\* which of the returned functions is called: one not called before, or one
\* called before
Called(mod, kind, again) ==
    IF again THEN cleanups
    ELSE [cleanups EXCEPT ![mod][kind].uncalled = @ - 1, ![mod][kind].called = @ + 1]

CanCall(mod, kind, again) ==
    IF again THEN cleanups[mod][kind].called > 0 ELSE cleanups[mod][kind].uncalled > 0

\* history: the table of module mod has been cleared
SeenPreCleared(mod) ==
    [seenPre EXCEPT ![mod] = [id \in DOMAIN seenPre[mod] |->
                                [seenPre[mod][id] EXCEPT !.cleared = TRUE]]]

\* ------------------------------------------------------------------ adapter
AdapterUserConfigs ==
    {EmptyMap, [enabled |-> TRUE], [enabled |-> FALSE],
     [enabled |-> TRUE, eventsFilePath |-> EventsPath],
     [enabled |-> FALSE, eventsFilePath |-> EventsPath]}

\* the body of setupVibecraftIntegration(userConfig): config is replaced, and
\* when enabled a callback is subscribed and its handle kept
SetupBody(userConfig) ==
    LET cfg == Merge(AdapterDefaultConfig, userConfig) IN
    /\ config' = cfg
    /\ IF ~cfg.enabled
       THEN /\ cleanups' = Returned("adapter", "noop")
            /\ UNCHANGED <<listeners, nextSub, unsubscribeAgentEvents>>
       ELSE /\ listeners' = onAgentEvent("adapter")
            /\ nextSub' = nextSub + 1
            /\ unsubscribeAgentEvents' = nextSub
            /\ cleanups' = Returned("adapter", "cleanup")

\* setupVibecraftIntegration(userConfig), called by the embedding program
setupVibecraftIntegration(userConfig) ==
    /\ nOps' = nOps + 1
    /\ SetupBody(userConfig)
    /\ lastOp' = Step("setup", "adapter", NoSource, NoCalls, FALSE)
    /\ UNCHANGED <<now, processCwd, toolUseStartTime, simpleVars, pluginVars, inflight, manual, seenPre>>

\* the body of the cleanup function setupVibecraftIntegration returns
AdapterCleanupBody ==
    /\ listeners' = Unsubscribed(unsubscribeAgentEvents)
    /\ unsubscribeAgentEvents' = Null
    /\ toolUseStartTime' = EmptyMap

\* the cleanup function setupVibecraftIntegration returns when enabled, called
AdapterCleanup(again) ==
    /\ CanCall("adapter", "cleanup", again)
    /\ nOps' = nOps + 1
    /\ cleanups' = Called("adapter", "cleanup", again)
    /\ AdapterCleanupBody
    /\ seenPre' = SeenPreCleared("adapter")
    /\ lastOp' = Step(IF again THEN "cleanup-again" ELSE "cleanup", "adapter",
                      NoSource, NoCalls, FALSE)
    /\ UNCHANGED <<now, processCwd, nextSub, config, simpleVars, pluginVars, inflight, manual>>

\* the function `() => {}` setupVibecraftIntegration returns when disabled, called
AdapterNoop(again) ==
    /\ CanCall("adapter", "noop", again)
    /\ nOps' = nOps + 1
    /\ cleanups' = Called("adapter", "noop", again)
    /\ lastOp' = Step(IF again THEN "noop-again" ELSE "noop", "adapter",
                      NoSource, NoCalls, FALSE)
    /\ UNCHANGED <<now, processCwd, hostVars, adapterVars, simpleVars, pluginVars, inflight,
                   manual, seenPre>>

\* sendToVibecraft: a POST is started unless `!config.enabled`
sendToVibecraftPosts(cfg) == cfg.enabled

\* variant: the append is skipped
NeverAppends(cfg) == FALSE

\* appendToEventsFile: an append is started unless `!config.eventsFilePath`
appendToEventsFileAppends(cfg) == cfg.eventsFilePath # ""

\* sendEvent of the simple integration: a POST is started unless `!options.enabled`
sendEventPosts(opts) == opts.enabled

\* the table entry a post_tool_use event was computed from
StartAt(out, table) ==
    IF out.type = "post_tool_use" THEN MapGet(table, out.toolUseId) ELSE None

\* the callback the adapter subscribes, run on evt
AdapterCallback(evt, rnd) ==
    LET out == transformAgentEvent(evt, toolUseStartTime, config.cwd, now, rnd) IN
    Dispatch("adapter", out,
             out # NoEvent /\ sendToVibecraftPosts(config),
             out # NoEvent /\ appendToEventsFileAppends(config),
             StartAt(out, toolUseStartTime))

\* the callback the simple integration subscribes, run on evt
SimpleCallback(evt, rnd) ==
    LET out == transformEvent(evt, toolStartTimes, options.cwd, now, rnd) IN
    Dispatch("simple", out, out # NoEvent /\ sendEventPosts(options), FALSE,
             StartAt(out, toolStartTimes))

\* history: the pre events a module's callbacks have transformed, by the
\* toolUseId the transformers give them
SeenPreAfter(evt) ==
    LET id == OrElse(evt.data.toolUseId,
                     SynthToolUseId(OrElse(evt.sessionKey, evt.runId), evt.seq))
    IN [m \in Mods |->
          IF Subscribed(m) /\ evt.stream = "tool" /\ evt.data.phase = "pre"
          THEN MapSet(seenPre[m], id, [ts |-> evt.ts, cleared |-> FALSE,
                                       sessionId |-> OrElse(evt.sessionKey, evt.runId)])
          ELSE seenPre[m]]

\* emitAgentEvent of the host: every subscribed callback runs on the event, in
\* subscription order; rnd gives each callback's random id suffix. The
\* callbacks of one module leave the same table (a pre event sets the same
\* entry again), and only a post event reads it.
Emit(evt, rnd) ==
    /\ nOps' = nOps + 1
    /\ LET modOf(i) == (CHOOSE l \in listeners : l.id = i).mod
           calls == [i \in {l.id : l \in listeners} |->
                        IF modOf(i) = "adapter" THEN AdapterCallback(evt, rnd[i])
                        ELSE SimpleCallback(evt, rnd[i])]
       IN /\ inflight' = [d \in DeliveryTypes |->
                            IF d.mod \in Mods /\ d.waiter = CallbackWaiter
                            THEN inflight[d] + NumStarted(calls, d.mod, d.kind)
                            ELSE inflight[d]]
          /\ lastOp' = Step("emit", "host", evt, calls, FALSE)
    /\ toolUseStartTime' = IF Subscribed("adapter")
                           THEN AdapterTableAfter(evt, toolUseStartTime)
                           ELSE toolUseStartTime
    /\ toolStartTimes' = IF Subscribed("simple")
                         THEN SimpleTableAfter(evt, toolStartTimes)
                         ELSE toolStartTimes
    /\ seenPre' = SeenPreAfter(evt)
    /\ UNCHANGED <<now, processCwd, hostVars, config, unsubscribeAgentEvents, options,
                   unsubscribe, pluginVars, cleanups, manual>>

\* the random suffixes the callbacks subscribed now can draw
SuffixChoices(suffixes) == [{l.id : l \in listeners} -> suffixes]

\* ------------------------------------------------------ simple integration
SimpleUserOptions == {EmptyMap, [enabled |-> TRUE], [enabled |-> FALSE]}

\* variant: the notification is sent as an error of the run
InitialNotificationOfRun(cwd, clock, rnd) ==
    [id |-> generateEventId("run1", clock, rnd), timestamp |-> clock,
     type |-> "notification", sessionId |-> "run1", cwd |-> cwd,
     message |-> "Vibecraft enabled (zh)", notificationType |-> "error"]

\* the notification enableVibecraft sends once it has subscribed
InitialNotification(cwd, clock, rnd) ==
    [id |-> generateEventId("system", clock, rnd), timestamp |-> clock,
     type |-> "notification", sessionId |-> "system", cwd |-> cwd,
     message |-> "Vibecraft enabled (zh)", notificationType |-> "info"]

\* enableVibecraft(userOptions)
enableVibecraft(userOptions, rnd) ==
    LET opts == Merge(DEFAULT_OPTIONS, userOptions) IN
    /\ nOps' = nOps + 1
    /\ options' = opts
    /\ IF ~opts.enabled
       THEN /\ cleanups' = Returned("simple", "noop")
            /\ lastOp' = Step("enable", "simple", NoSource, NoCalls, FALSE)
            /\ UNCHANGED <<listeners, nextSub, unsubscribe, inflight>>
       ELSE /\ listeners' = onAgentEvent("simple")
            /\ nextSub' = nextSub + 1
            /\ unsubscribe' = nextSub
            /\ cleanups' = Returned("simple", "cleanup")
            /\ LET call == Dispatch("simple", InitialNotification(opts.cwd, now, rnd),
                                    sendEventPosts(opts), FALSE, None)
               IN /\ inflight' = StartedMore(inflight, Delivery("simple", "post", CallbackWaiter),
                                             NumStarted(One(call), "simple", "post"))
                  /\ lastOp' = Step("enable", "simple", NoSource, One(call), FALSE)
    /\ UNCHANGED <<now, processCwd, adapterVars, toolStartTimes, pluginVars, manual, seenPre>>

\* the body of the cleanup function enableVibecraft returns
SimpleCleanupBody ==
    /\ listeners' = Unsubscribed(unsubscribe)
    /\ unsubscribe' = Null
    /\ toolStartTimes' = EmptyMap

\* the cleanup function enableVibecraft returns when enabled, called
SimpleCleanup(again) ==
    /\ CanCall("simple", "cleanup", again)
    /\ nOps' = nOps + 1
    /\ cleanups' = Called("simple", "cleanup", again)
    /\ SimpleCleanupBody
    /\ seenPre' = SeenPreCleared("simple")
    /\ lastOp' = Step(IF again THEN "cleanup-again" ELSE "cleanup", "simple",
                      NoSource, NoCalls, FALSE)
    /\ UNCHANGED <<now, processCwd, nextSub, adapterVars, options, pluginVars, inflight, manual>>

\* the function `() => {}` enableVibecraft returns when disabled, called
SimpleNoop(again) ==
    /\ CanCall("simple", "noop", again)
    /\ nOps' = nOps + 1
    /\ cleanups' = Called("simple", "noop", again)
    /\ lastOp' = Step(IF again THEN "noop-again" ELSE "noop", "simple",
                      NoSource, NoCalls, FALSE)
    /\ UNCHANGED <<now, processCwd, hostVars, adapterVars, simpleVars, pluginVars, inflight,
                   manual, seenPre>>

\* ------------------------------------------------------------ manual sends
ManualSessionId == "s1"

\* the events the manual send functions build
ManualPre(cwd, startTime, toolUseId, rnd) ==
    [id |-> generateEventId(ManualSessionId, startTime, rnd), timestamp |-> startTime,
     type |-> "pre_tool_use", sessionId |-> ManualSessionId, cwd |-> cwd,
     tool |-> "Read", toolInput |-> EmptyObject, toolUseId |-> toolUseId]

\* variant: the post event gets a toolUseId of its own and no start time
ManualPostOnItsOwn(cwd, startTime, endTime, toolUseId, rnd) ==
    [id |-> generateEventId(ManualSessionId, endTime, rnd), timestamp |-> endTime,
     type |-> "post_tool_use", sessionId |-> ManualSessionId, cwd |-> cwd,
     tool |-> "Read", toolInput |-> EmptyObject, toolResponse |-> EmptyObject,
     toolUseId |-> generateEventId(ManualSessionId, endTime, "post"), success |-> TRUE,
     duration |-> Some(0)]

ManualPost(cwd, startTime, endTime, toolUseId, rnd) ==
    [id |-> generateEventId(ManualSessionId, endTime, rnd), timestamp |-> endTime,
     type |-> "post_tool_use", sessionId |-> ManualSessionId, cwd |-> cwd,
     tool |-> "Read", toolInput |-> EmptyObject, toolResponse |-> EmptyObject,
     toolUseId |-> toolUseId, success |-> TRUE,
     duration |-> Some(endTime - startTime)]

ManualPrompt(cwd, clock, rnd) ==
    [id |-> generateEventId(ManualSessionId, clock, rnd), timestamp |-> clock,
     type |-> "user_prompt_submit", sessionId |-> ManualSessionId, cwd |-> cwd,
     prompt |-> "hello"]

ManualStop(cwd, clock, rnd) ==
    [id |-> generateEventId(ManualSessionId, clock, rnd), timestamp |-> clock,
     type |-> "stop", sessionId |-> ManualSessionId, cwd |-> cwd,
     stopHookActive |-> FALSE, response |-> Undefined]

\* the working directory a manual send function of the module reports
ManualCwd(mod) == IF mod = "adapter" THEN config.cwd ELSE processCwd

\* whether the module's send function starts a POST now
Posts(mod) == IF mod = "adapter" THEN sendToVibecraftPosts(config) ELSE sendEventPosts(options)

\* sendToolUse (adapter) / sendToolEvent (simple), up to the first await: the
\* pre event is sent; when no POST is started the send returns at once and
\* the post event follows in the same turn
ManualTool(mod, rnd) ==
    /\ manual[mod] = Idle
    /\ nOps' = nOps + 1
    /\ LET toolUseId == generateEventId(ManualSessionId, now, rnd)
           pre == Dispatch(mod, ManualPre(ManualCwd(mod), now, toolUseId, rnd),
                           Posts(mod), FALSE, None)
           post == Dispatch(mod, ManualPost(ManualCwd(mod), now, now, toolUseId, rnd),
                            Posts(mod), FALSE, None)
       IN IF pre.post
          THEN /\ inflight' = StartedMore(inflight, Delivery(mod, "post", "manual"), 1)
               /\ manual' = [manual EXCEPT ![mod] =
                               [pc |-> "pre", startTime |-> now, toolUseId |-> toolUseId]]
               /\ lastOp' = Step("manual-tool", mod, NoSource, One(pre), FALSE)
          ELSE /\ UNCHANGED <<inflight, manual>>
               /\ lastOp' = Step("manual-tool", mod, NoSource, <<pre, post>>, FALSE)
    /\ UNCHANGED <<now, processCwd, hostVars, adapterVars, simpleVars, pluginVars, cleanups, seenPre>>

\* sendUserPrompt / sendStop (adapter), sendPromptEvent / sendStopEvent (simple)
ManualSingle(mod, fn, rnd) ==
    /\ manual[mod] = Idle
    /\ nOps' = nOps + 1
    /\ LET ev == IF fn = "prompt" THEN ManualPrompt(ManualCwd(mod), now, rnd)
                 ELSE ManualStop(ManualCwd(mod), now, rnd)
           call == Dispatch(mod, ev, Posts(mod), FALSE, None)
       IN /\ lastOp' = Step("manual-" \o fn, mod, NoSource, One(call), FALSE)
          /\ IF call.post
             THEN /\ inflight' = StartedMore(inflight, Delivery(mod, "post", "manual"), 1)
                  /\ manual' = [manual EXCEPT ![mod] =
                                  [pc |-> "single", startTime |-> now, toolUseId |-> ""]]
             ELSE UNCHANGED <<inflight, manual>>
    /\ UNCHANGED <<now, processCwd, hostVars, adapterVars, simpleVars, pluginVars, cleanups, seenPre>>

\* ------------------------------------------------------------------- plugin
PluginUserConfigs ==
    {EmptyMap, [enabled |-> TRUE], [enabled |-> FALSE],
     [enabled |-> TRUE, eventsFilePath |-> EventsPath]}

HookNames == {"before_agent_start", "agent_end", "before_tool_call",
              "after_tool_call", "message_received"}

PluginSessionId == "agent1"       \* ctx.sessionKey || ctx.agentId

\* the event a hook handler builds
HookEvent(hookName, clock) ==
    LET base == [timestamp |-> clock, sessionId |-> PluginSessionId, cwd |-> processCwd]
        toolUseId == "call1"      \* ctx.toolCallId
    IN CASE hookName = "before_agent_start" ->
              base @@ [id |-> PluginSessionId \o "-start-" \o ToString(clock),
                       type |-> "session_start", source |-> "startup"]
         [] hookName = "agent_end" ->
              base @@ [id |-> PluginSessionId \o "-stop-" \o ToString(clock),
                       type |-> "stop", stopHookActive |-> FALSE, response |-> Undefined]
         [] hookName = "before_tool_call" ->
              base @@ [id |-> toolUseId \o "-pre", type |-> "pre_tool_use",
                       tool |-> "Read", toolInput |-> EmptyObject, toolUseId |-> toolUseId]
         [] hookName = "after_tool_call" ->
              base @@ [id |-> toolUseId \o "-post", type |-> "post_tool_use",
                       tool |-> "Read", toolInput |-> EmptyObject,
                       toolResponse |-> EmptyObject, toolUseId |-> toolUseId,
                       success |-> TRUE]
         [] OTHER ->
              base @@ [id |-> PluginSessionId \o "-prompt-" \o ToString(clock),
                       type |-> "user_prompt_submit", prompt |-> "hello"]

\* VibecraftPlugin.onLoad(registry, userConfig)
onLoad(userConfig) ==
    LET cfg == Merge(PluginDefaultConfig, userConfig) IN
    /\ nOps' = nOps + 1
    /\ pluginConfig' = cfg
    /\ IF ~cfg.enabled
       THEN UNCHANGED <<hooks, cleanupIntegration, hostVars, config,
                        unsubscribeAgentEvents, cleanups>>
       ELSE /\ hooks' = hooks + 1
            /\ SetupBody([enabled |-> TRUE, serverUrl |-> cfg.serverUrl,
                          eventsFilePath |-> cfg.eventsFilePath, debug |-> cfg.debug])
            /\ cleanupIntegration' = TRUE
    /\ lastOp' = Step("onLoad", "plugin", NoSource, NoCalls, FALSE)
    /\ UNCHANGED <<now, processCwd, toolUseStartTime, simpleVars, inflight, manual, seenPre>>

\* VibecraftPlugin.onUnload(registry)
onUnload ==
    /\ nOps' = nOps + 1
    /\ hooks' = 0
    /\ IF cleanupIntegration
       THEN /\ AdapterCleanupBody
            /\ seenPre' = SeenPreCleared("adapter")
            /\ cleanups' = IF cleanups["adapter"]["cleanup"].uncalled > 0
                           THEN Called("adapter", "cleanup", FALSE) ELSE cleanups
       ELSE UNCHANGED <<listeners, unsubscribeAgentEvents, toolUseStartTime, cleanups,
                        seenPre>>
    /\ cleanupIntegration' = FALSE
    /\ lastOp' = Step("onUnload", "plugin", NoSource, NoCalls, FALSE)
    /\ UNCHANGED <<now, processCwd, nextSub, config, pluginConfig, simpleVars, inflight, manual>>

\* the host runs the handlers registered for a hook: each returns at once
\* when `!config.enabled`, and otherwise builds its event and awaits the
\* plugin's sendToVibecraft, which posts without looking at the configuration
HookCall(hookName) ==
    /\ hooks > 0
    /\ nOps' = nOps + 1
    /\ LET calls == [i \in 1..hooks |->
                        Dispatch("plugin", HookEvent(hookName, now),
                                 pluginConfig.enabled, FALSE, None)]
           d == Delivery("plugin", "post", "hook")
       IN /\ inflight' = StartedMore(inflight, d, NumStarted(calls, "plugin", "post"))
          /\ lastOp' = Step("hook", "plugin", NoSource, calls, FALSE)
    /\ UNCHANGED <<now, processCwd, hostVars, adapterVars, simpleVars, pluginVars, cleanups,
                   manual, seenPre>>

\* ------------------------------------------------------- delivery outcomes
\* fetch rejects on a transport error and when its signal aborts
FetchRejects(outcome) == outcome \in {"unreachable", "timeout"}

\* fs.appendFile rejects when the file cannot be written
AppendRejects(outcome) == outcome = "unwritable"

\* variant: a sender without its try/catch
Uncaught(mod, kind, outcome) ==
    IF kind = "append" THEN AppendRejects(outcome) ELSE FetchRejects(outcome)

\* whether the promise a sender returns rejects: what is thrown inside its
\* try block is caught
SenderRejects(mod, kind, outcome) ==
    LET thrown == IF kind = "append" THEN AppendRejects(outcome) ELSE FetchRejects(outcome)
        caught == TRUE
    IN thrown /\ ~caught

\* a delivery started by a stream callback completes: `.catch(() => {})`
\* takes a rejection
SettleDetached(d, outcome) ==
    /\ d.waiter \in {"none", "callback"}
    /\ inflight[d] > 0
    /\ inflight' = [inflight EXCEPT ![d] = @ - 1]
    /\ lastOp' = Step("settle-" \o outcome, d.mod, NoSource, NoCalls, FALSE)
    /\ UNCHANGED <<now, processCwd, nOps, hostVars, adapterVars, simpleVars, pluginVars, cleanups,
                   manual, seenPre>>

\* the POST a manual send function awaits completes: the function goes on
\* (sendToolUse / sendToolEvent send the post event) or returns to its caller
SettleManual(d, outcome, rnd) ==
    /\ d.waiter = "manual"
    /\ inflight[d] > 0
    /\ LET mod == d.mod
           m == manual[mod]
           rejected == SenderRejects(mod, "post", outcome)
           post == Dispatch(mod, ManualPost(ManualCwd(mod), m.startTime, now,
                                            m.toolUseId, rnd),
                            Posts(mod), FALSE, None)
       IN IF m.pc = "pre" /\ ~rejected
          THEN /\ lastOp' = Step("settle-" \o outcome, mod, NoSource, One(post), FALSE)
               /\ IF post.post
                  THEN /\ inflight' = inflight
                       /\ manual' = [manual EXCEPT ![mod].pc = "post"]
                  ELSE /\ inflight' = [inflight EXCEPT ![d] = @ - 1]
                       /\ manual' = [manual EXCEPT ![mod] = Idle]
          ELSE /\ lastOp' = Step("settle-" \o outcome, mod, NoSource, NoCalls, rejected)
               /\ inflight' = [inflight EXCEPT ![d] = @ - 1]
               /\ manual' = [manual EXCEPT ![mod] = Idle]
    /\ UNCHANGED <<now, processCwd, nOps, hostVars, adapterVars, simpleVars, pluginVars, cleanups,
                   seenPre>>

\* the POST a hook handler awaits completes: the handler returns to the host
SettleHook(d, outcome) ==
    /\ d.waiter = "hook"
    /\ inflight[d] > 0
    /\ inflight' = [inflight EXCEPT ![d] = @ - 1]
    /\ lastOp' = Step("settle-" \o outcome, d.mod, NoSource, NoCalls,
                      SenderRejects(d.mod, d.kind, outcome))
    /\ UNCHANGED <<now, processCwd, nOps, hostVars, adapterVars, simpleVars, pluginVars, cleanups,
                   manual, seenPre>>

Settle(d, outcome, rnd) ==
    \/ SettleDetached(d, outcome)
    \/ SettleManual(d, outcome, rnd)
    \/ SettleHook(d, outcome)

\* the destination answers a POST, or the connection fails
Respond(d, outcome, rnd) == d.kind = "post" /\ Settle(d, outcome, rnd)

\* variant: a fetch without an abort signal
NeverAborts(d, rnd) == FALSE /\ Settle(d, "timeout", rnd)

\* the 2000 ms timer of a POST fires and aborts the fetch
Abort(d, rnd) == d.kind = "post" /\ Settle(d, "timeout", rnd)

\* fs.appendFile finishes
AppendDone(d, outcome) == d.kind = "append" /\ SettleDetached(d, outcome)

\* the host clock advances
Tick ==
    /\ now < MaxNow
    /\ now' = now + 1
    /\ UNCHANGED <<processCwd, nOps, hostVars, adapterVars, simpleVars, pluginVars,
                   cleanups, inflight, manual, seenPre, lastOp>>

\* the directories the host process may be in
Dirs == {ProcessCwd, "/moved"}

\* process.chdir(dir), called by the host or the embedding program
chdir(dir) ==
    /\ dir # processCwd
    /\ processCwd' = dir
    /\ nOps' = nOps + 1
    /\ lastOp' = Step("chdir", "host", NoSource, NoCalls, FALSE)
    /\ UNCHANGED <<now, hostVars, adapterVars, simpleVars, pluginVars, cleanups,
                   inflight, manual, seenPre>>

\* ----------------------------------------------------------- specifications
Budget == nOps < MaxOps

SendBudget == nOps < MaxSends

OneSuffix == {"r1"}

\* the deliveries completing, whatever the destination and the file do
Completions(suffixes) ==
    \/ \E d \in DeliveryTypes, o \in PostOutcomes, r \in suffixes : Respond(d, o, r)
    \/ \E d \in DeliveryTypes, r \in suffixes : Abort(d, r)
    \/ \E d \in DeliveryTypes, o \in AppendOutcomes : AppendDone(d, o)

\* a program that enables and tears down the adapter and the simple
\* integration while the host emits events
StreamNext ==
    \/ Budget /\ \E u \in AdapterUserConfigs : setupVibecraftIntegration(u)
    \/ Budget /\ \E again \in BOOLEAN : AdapterCleanup(again)
    \/ Budget /\ \E again \in BOOLEAN : AdapterNoop(again)
    \/ Budget /\ \E u \in SimpleUserOptions, r \in OneSuffix : enableVibecraft(u, r)
    \/ Budget /\ \E again \in BOOLEAN : SimpleCleanup(again)
    \/ Budget /\ \E again \in BOOLEAN : SimpleNoop(again)
    \/ Budget /\ \E e \in StreamEvents(now), rnd \in SuffixChoices(OneSuffix) : Emit(e, rnd)
    \/ Tick

SpecStream == Init /\ [][StreamNext]_vars

\* a program that sends events by hand, through the stream and through the
\* plugin's hooks, and the deliveries completing
DeliveryEvents(clock) ==
    {AgentEvent("tool", "pre", "t1", clock, 1), AgentEvent("assistant", Undefined, Undefined, clock, 1)}

DeliveryNext ==
    \/ SendBudget /\ \E u \in AdapterUserConfigs : setupVibecraftIntegration(u)
    \/ SendBudget /\ AdapterCleanup(FALSE)
    \/ SendBudget /\ \E u \in SimpleUserOptions, r \in OneSuffix : enableVibecraft(u, r)
    \/ SendBudget /\ SimpleCleanup(FALSE)
    \/ SendBudget /\ \E e \in DeliveryEvents(now), rnd \in SuffixChoices(OneSuffix) : Emit(e, rnd)
    \/ SendBudget /\ \E m \in Mods, r \in OneSuffix : ManualTool(m, r)
    \/ SendBudget /\ \E m \in Mods, fn \in {"prompt", "stop"}, r \in OneSuffix : ManualSingle(m, fn, r)
    \/ SendBudget /\ \E u \in PluginUserConfigs : onLoad(u)
    \/ SendBudget /\ onUnload
    \/ SendBudget /\ \E h \in HookNames : HookCall(h)
    \/ Completions(OneSuffix)
    \/ Tick

SpecDelivery == Init /\ [][DeliveryNext]_vars

\* the POSTs a run can have in flight
PostTypes == {d \in DeliveryTypes : d.kind = "post"}

\* a program that enables the integrations and the plugin, emits events,
\* calls a hook, sends by hand and tears down, with the timers running: a timer that has been armed fires
\* unless the fetch settles first
LiveConfigs == {[enabled |-> TRUE], [enabled |-> TRUE, eventsFilePath |-> EventsPath]}

LiveNext ==
    \/ SendBudget /\ \E u \in LiveConfigs : setupVibecraftIntegration(u)
    \/ SendBudget /\ AdapterCleanup(FALSE)
    \/ SendBudget /\ \E r \in OneSuffix : enableVibecraft([enabled |-> TRUE], r)
    \/ SendBudget /\ SimpleCleanup(FALSE)
    \/ SendBudget /\ \E e \in DeliveryEvents(now), rnd \in SuffixChoices(OneSuffix) : Emit(e, rnd)
    \/ SendBudget /\ \E m \in Mods, r \in OneSuffix : ManualTool(m, r)
    \/ SendBudget /\ onLoad([enabled |-> TRUE])
    \/ SendBudget /\ onUnload
    \/ SendBudget /\ HookCall("before_tool_call")
    \/ Completions(OneSuffix)

SpecLive ==
    /\ Init /\ [][LiveNext]_vars
    /\ \A d \in PostTypes : WF_vars(\E r \in OneSuffix : Abort(d, r))

\* every operation, in any order
Next ==
    \/ Budget /\ \E u \in AdapterUserConfigs : setupVibecraftIntegration(u)
    \/ Budget /\ \E again \in BOOLEAN : AdapterCleanup(again)
    \/ Budget /\ \E again \in BOOLEAN : AdapterNoop(again)
    \/ Budget /\ \E u \in SimpleUserOptions, r \in RandomSuffixes : enableVibecraft(u, r)
    \/ Budget /\ \E again \in BOOLEAN : SimpleCleanup(again)
    \/ Budget /\ \E again \in BOOLEAN : SimpleNoop(again)
    \/ Budget /\ \E e \in StreamEvents(now), rnd \in SuffixChoices(RandomSuffixes) : Emit(e, rnd)
    \/ Budget /\ \E m \in Mods, r \in RandomSuffixes : ManualTool(m, r)
    \/ Budget /\ \E m \in Mods, fn \in {"prompt", "stop"}, r \in RandomSuffixes : ManualSingle(m, fn, r)
    \/ Budget /\ \E u \in PluginUserConfigs : onLoad(u)
    \/ Budget /\ onUnload
    \/ Budget /\ \E h \in HookNames : HookCall(h)
    \/ Completions(RandomSuffixes)
    \/ Budget /\ \E d \in Dirs : chdir(d)
    \/ Tick

Spec == Init /\ [][Next]_vars


\* ================================================================ properties
\* the dispatches of the last step that carry a post_tool_use event built by
\* a stream callback
ToolPosts ==
    IF lastOp.op = "emit"
    THEN {i \in DOMAIN lastOp.calls : lastOp.calls[i].out.type = "post_tool_use"}
    ELSE {}

\* the last pre event module m transformed under toolUseId id, if any
PreSeen(m, id) == id \in DOMAIN seenPre[m]

\* C1 (as stated): whenever a module's callback transforms a post event and
\* has transformed a pre event with the same toolUseId before, the
\* post_tool_use event carries duration = post.ts - pre.ts, whatever happened
\* between the two events.
C1_AsStated ==
    \A i \in ToolPosts :
        LET c == lastOp.calls[i] IN
        PreSeen(c.mod, c.out.toolUseId) =>
            c.out.duration = Some(lastOp.evt.ts - seenPre[c.mod][c.out.toolUseId].ts)

\* C1 (amended): whenever a module's callback transforms a post event, has
\* transformed a pre event with the same toolUseId before, and no teardown of
\* that module has cleared the table since the last such pre event, the
\* post_tool_use event carries duration = post.ts - ts of that pre event.
C1_DurationOfPair ==
    \A i \in ToolPosts :
        LET c == lastOp.calls[i] IN
        (PreSeen(c.mod, c.out.toolUseId) /\ ~seenPre[c.mod][c.out.toolUseId].cleared) =>
            c.out.duration = Some(lastOp.evt.ts - seenPre[c.mod][c.out.toolUseId].ts)

\* a post event transformed one clock tick after its pre event, other events
\* in between or not: the duration is 1
C1_Witness ==
    \E i \in ToolPosts :
        LET c == lastOp.calls[i] IN
        /\ PreSeen(c.mod, c.out.toolUseId)
        /\ ~seenPre[c.mod][c.out.toolUseId].cleared
        /\ lastOp.evt.ts > seenPre[c.mod][c.out.toolUseId].ts
        /\ c.out.duration = Some(1)

\* C2: a post event transformed while the table holds no start time for its
\* toolUseId gives a post_tool_use event whose serialization has no duration
\* field at all.
C2_NoStartNoDuration ==
    \A i \in ToolPosts :
        LET c == lastOp.calls[i] IN
        c.startAt = None => "duration" \notin DOMAIN JSONstringify(c.out)

\* a post event posted with no table entry, after a teardown cleared the
\* entry its pre event had made
C2_Witness ==
    \E i \in ToolPosts :
        LET c == lastOp.calls[i] IN
        /\ c.startAt = None
        /\ c.post
        /\ "duration" \notin DOMAIN c.body
        /\ PreSeen(c.mod, c.out.toolUseId)

\* C3: every post_tool_use event built from the stream that carries a
\* duration has duration = its own timestamp - the start time the table held
\* under its toolUseId when it was transformed.
C3_DurationFromTable ==
    \A i \in ToolPosts :
        LET c == lastOp.calls[i] IN
        c.out.duration # None =>
            /\ c.startAt # None
            /\ c.out.duration = Some(c.out.timestamp - c.startAt[1])

\* a post_tool_use event with a duration in its POST body, the table having
\* held an earlier start time
C3_Witness ==
    \E i \in ToolPosts :
        LET c == lastOp.calls[i] IN
        /\ c.post
        /\ "duration" \in DOMAIN c.body
        /\ c.startAt # None
        /\ c.out.timestamp > c.startAt[1]

\* whether the configuration in force for a module has enabled = false
Disabled(mod) ==
    CASE mod = "adapter" -> ~config.enabled
      [] mod = "simple" -> ~options.enabled
      [] OTHER -> ~pluginConfig.enabled

\* C4 (as stated): while the configuration in force has enabled = false,
\* handling a source event or calling a send function starts no POST and no
\* file append.
C4_AsStated ==
    lastOp.op \in {"emit", "manual-tool", "manual-prompt", "manual-stop"} =>
        \A i \in DOMAIN lastOp.calls :
            LET c == lastOp.calls[i] IN
            Disabled(c.mod) => ~c.post /\ ~c.append

\* the functions setup/enable have returned have all been called
AllTeardownsCalled ==
    /\ \A m \in Mods, k \in {"noop", "cleanup"} : cleanups[m][k].uncalled = 0
    /\ \E m \in Mods, k \in {"noop", "cleanup"} : cleanups[m][k].called > 0

\* C5: whatever the outcome of a delivery (unreachable, non-2xx, timeout,
\* file unwritable), no step lets an error reach the caller of a send
\* function, of a hook handler or of a stream callback.
C5_NothingThrown == ~lastOp.threw

\* a manual send whose awaited POST of the pre event was aborted by the
\* timeout, and which went on to send the post event
C5_Witness ==
    /\ lastOp.op = "settle-timeout"
    /\ DOMAIN lastOp.calls # {}
    /\ ~lastOp.threw

\* C6 (as stated): once every function returned by setup/enable has been
\* called, a source event is handled by no callback: nothing is transformed
\* or dispatched.
C6_AsStated ==
    (lastOp.op = "emit" /\ AllTeardownsCalled) => DOMAIN lastOp.calls = {}

\* the correlation table of a module
Table(mod) == IF mod = "adapter" THEN toolUseStartTime ELSE toolStartTimes

\* C7 (as stated): no call of a returned teardown function throws, and after
\* any call of any of them (first or repeated, returned by an enabled or by a
\* disabled setup/enable) the module's table is empty.
C7_AsStated ==
    lastOp.op \in {"cleanup", "cleanup-again", "noop", "noop-again"} =>
        ~lastOp.threw /\ Table(lastOp.mod) = EmptyMap

\* the detached delivery type of a module
Detached(mod, kind) == Delivery(mod, kind, "none")

TeardownStep(op) == op \in {"cleanup", "cleanup-again", "noop", "noop-again", "onUnload"}

\* C9: every POST that has been started completes - the destination answers,
\* the connection fails or the 2000 ms timer aborts it - and a teardown
\* leaves the POSTs in flight as they are.
C9_AttemptsComplete ==
    /\ \A d \in PostTypes : (inflight[d] > 0) ~> (inflight[d] = 0)
    /\ [][nOps' # nOps /\ TeardownStep(lastOp'.op) => inflight' = inflight]_vars

\* a teardown called while a POST started by a stream callback is in flight
C9_Witness ==
    /\ lastOp.op = "cleanup"
    /\ \E m \in Mods : inflight[Detached(m, "post")] > 0 /\ lastOp.mod = m

\* the adapter's dispatches of the last step that carry an event
AdapterEvents ==
    IF lastOp.op = "emit"
    THEN {i \in DOMAIN lastOp.calls :
            lastOp.calls[i].mod = "adapter" /\ lastOp.calls[i].out # NoEvent}
    ELSE {}

\* C10: with a non-empty eventsFilePath, every event the adapter builds from
\* the stream starts exactly one append, of the serialization that is also
\* the POST body followed by a newline, whether or not a POST is started and
\* whatever becomes of it; an append that completes, failed or not, leaves
\* the POSTs as they are.
C10_OneLinePerEvent ==
    /\ [](config.eventsFilePath # "" =>
            /\ \A i \in AdapterEvents :
                  LET c == lastOp.calls[i] IN
                  /\ c.append
                  /\ c.line = <<JSONstringify(c.out), "\n">>
                  /\ c.post => c.line[1] = c.body
            /\ lastOp.op = "emit" =>
                  /\ NumStarted(lastOp.calls, "adapter", "append") = Cardinality(AdapterEvents)
                  /\ inflight[Detached("adapter", "append")] >= Cardinality(AdapterEvents))
    /\ [][inflight'[Detached("adapter", "append")] < inflight[Detached("adapter", "append")] =>
              \A d \in PostTypes : inflight'[d] = inflight[d]]_vars

\* an event appended and posted, the POST of an earlier event still in flight
C10_Witness ==
    /\ config.eventsFilePath # ""
    /\ \E i \in AdapterEvents :
          LET c == lastOp.calls[i] IN
          c.append /\ c.post /\ c.line[1] = c.body
    /\ inflight[Detached("adapter", "post")] >= 2

\* ------------------------------------------------------------------ logging
\* logDebug: prints when the module's debug option is on
logDebugPrints(debug) == debug

\* logError of the adapter: prints whatever the debug option
logErrorPrints(debug) == TRUE

\* the debug option in force for a module
DebugOf(mod) ==
    CASE mod = "adapter" -> config.debug
      [] mod = "simple" -> options.debug
      [] OTHER -> pluginConfig.debug

\* whether a sender prints to the console when its delivery completes with
\* the outcome
Logs(mod, kind, outcome, debug) ==
    CASE mod = "adapter" /\ kind = "post" ->
           IF outcome = "non2xx" THEN logErrorPrints(debug)
           ELSE FetchRejects(outcome) /\ logDebugPrints(debug)
      [] mod = "adapter" /\ kind = "append" ->
           IF AppendRejects(outcome) THEN logErrorPrints(debug) ELSE logDebugPrints(debug)
      [] mod = "simple" -> logDebugPrints(debug)
      [] OTHER -> outcome # "ok" /\ debug

\* the outcome a completion step records, and the kind of delivery it ends
OutcomeOf(op) ==
    CASE op = "settle-non2xx" -> "non2xx"
      [] op = "settle-unreachable" -> "unreachable"
      [] op = "settle-timeout" -> "timeout"
      [] op = "settle-unwritable" -> "unwritable"
      [] OTHER -> "ok"

KindOf(outcome) == IF outcome = "unwritable" THEN "append" ELSE "post"

FailureOps == {"settle-non2xx", "settle-unreachable", "settle-timeout", "settle-unwritable"}

\* C11 (as stated): with debug = false, a delivery that fails (unreachable,
\* non-2xx, timeout, file unwritable) prints nothing.
C11_AsStated ==
    (lastOp.op \in FailureOps /\ ~DebugOf(lastOp.mod)) =>
        ~Logs(lastOp.mod, KindOf(OutcomeOf(lastOp.op)), OutcomeOf(lastOp.op),
              DebugOf(lastOp.mod))

\* --------------------------------------------------------------- tool calls
\* the hook the host runs for a phase of a tool call
HookOfPhase(phase) == IF phase = "pre" THEN "before_tool_call" ELSE "after_tool_call"

\* the host makes one phase of a tool call: it runs the handlers registered
\* for the phase's hook and emits the tool event on the stream. The
\* dispatches of the handlers are logged under negative indices, those of the
\* stream callbacks under their subscription ids.
ToolCallPhase(phase, id, rnd) ==
    /\ nOps' = nOps + 1
    /\ LET evt == AgentEvent("tool", phase, id, now, 1)
           modOf(i) == (CHOOSE l \in listeners : l.id = i).mod
           ids == {l.id : l \in listeners}
           cbCalls == [i \in ids |->
                          IF modOf(i) = "adapter" THEN AdapterCallback(evt, rnd)
                          ELSE SimpleCallback(evt, rnd)]
           hookCalls == [h \in 1..hooks |->
                            Dispatch("plugin", HookEvent(HookOfPhase(phase), now),
                                     pluginConfig.enabled, FALSE, None)]
           calls == [i \in ids \cup {-h : h \in 1..hooks} |->
                        IF i > 0 THEN cbCalls[i] ELSE hookCalls[-i]]
           hookD == Delivery("plugin", "post", "hook")
       IN /\ inflight' = [d \in DeliveryTypes |->
                            IF d.mod \in Mods /\ d.waiter = CallbackWaiter
                            THEN inflight[d] + NumStarted(cbCalls, d.mod, d.kind)
                            ELSE IF d = hookD
                            THEN inflight[d] + NumStarted(hookCalls, "plugin", "post")
                            ELSE inflight[d]]
          /\ lastOp' = Step("tool-call", "host", evt, calls, FALSE)
          /\ toolUseStartTime' = IF Subscribed("adapter")
                                 THEN AdapterTableAfter(evt, toolUseStartTime)
                                 ELSE toolUseStartTime
          /\ toolStartTimes' = IF Subscribed("simple")
                               THEN SimpleTableAfter(evt, toolStartTimes)
                               ELSE toolStartTimes
          /\ seenPre' = SeenPreAfter(evt)
    /\ UNCHANGED <<now, processCwd, hostVars, config, unsubscribeAgentEvents, options,
                   unsubscribe, pluginVars, cleanups, manual>>

\* a program that enables the integration once, in one of the three ways,
\* and then lets the agent make tool calls
ToolCallsNext ==
    \/ nOps = 0 /\ \E u \in AdapterUserConfigs : setupVibecraftIntegration(u)
    \/ nOps = 0 /\ \E u \in SimpleUserOptions, r \in OneSuffix : enableVibecraft(u, r)
    \/ nOps = 0 /\ \E u \in PluginUserConfigs : onLoad(u)
    \/ nOps > 0 /\ Budget /\ \E ph \in {"pre", "post"}, t \in ToolIds, r \in OneSuffix :
                                 ToolCallPhase(ph, t, r)
    \/ Tick

SpecToolCalls == Init /\ [][ToolCallsNext]_vars

\* the events of the given type the last step has sent to the server
Sent(type) ==
    {i \in DOMAIN lastOp.calls : lastOp.calls[i].post /\ lastOp.calls[i].out.type = type}

\* one of the three ways of enabling is in force
IntegrationOn ==
    \/ Subscribed("adapter") /\ config.enabled
    \/ Subscribed("simple") /\ options.enabled
    \/ hooks > 0 /\ pluginConfig.enabled

\* C12 (as stated): with the integration enabled in one of the three ways,
\* each phase of a tool call sends exactly one event to the server: one
\* pre_tool_use for the pre phase, one post_tool_use for the post phase, two
\* events for the tool call.
C12_AsStated ==
    (lastOp.op = "tool-call" /\ IntegrationOn) =>
        /\ Cardinality(Sent("pre_tool_use")) = (IF lastOp.evt.data.phase = "pre" THEN 1 ELSE 0)
        /\ Cardinality(Sent("post_tool_use")) = (IF lastOp.evt.data.phase = "post" THEN 1 ELSE 0)

\* ------------------------------------------------------ transformer inputs
\* an AgentEventPayload of run run1 with the given fields
SourceEvent(stream, phase, toolUseId, sessionKey, error, result, clock, seq) ==
    [runId |-> "run1", sessionKey |-> sessionKey, seq |-> seq, ts |-> clock,
     stream |-> stream,
     data |-> [phase |-> phase, toolUseId |-> toolUseId, toolName |-> "Read",
               params |-> Undefined, result |-> result, error |-> error,
               assistantText |-> Undefined]]

SessionKeys == {Undefined, "sk1"}

\* the payloads the transformers are applied to: every stream the host has
\* and one it has not, handled and unhandled phases, tool events with and
\* without a toolUseId, with and without an error
SourceEvents(clock) ==
    {SourceEvent("lifecycle", ph, Undefined, k, Undefined, r, clock, 1) :
        ph \in {"start", "end", "update"}, k \in SessionKeys, r \in {Undefined, "done"}}
    \cup {SourceEvent("tool", ph, "t1", k, e, Undefined, clock, 1) :
            ph \in {"pre", "post"}, k \in SessionKeys, e \in {Undefined, "boom"}}
    \cup {SourceEvent("tool", ph, t, k, e, Undefined, clock, s) :
            ph \in {"pre", "post"}, t \in {Undefined, ""},
            k \in SessionKeys, e \in {Undefined, "boom"}, s \in {1, 2}}
    \cup {SourceEvent("tool", "update", "t1", k, Undefined, Undefined, clock, 1) :
            k \in SessionKeys}
    \cup {SourceEvent(st, ph, Undefined, k, Undefined, Undefined, clock, 1) :
            st \in {"assistant", "custom"}, ph \in {"pre", Undefined},
            k \in SessionKeys}
    \cup {SourceEvent("error", ph, Undefined, k, e, Undefined, clock, 1) :
            ph \in {"pre", Undefined}, k \in SessionKeys, e \in {Undefined, "boom", ""}}

\* a program that enables the adapter and the simple integration, tears them
\* down, and a host that emits any payload
TransformNext ==
    \/ SendBudget /\ setupVibecraftIntegration([enabled |-> TRUE, eventsFilePath |-> EventsPath])
    \/ SendBudget /\ \E r \in OneSuffix : enableVibecraft([enabled |-> TRUE], r)
    \/ SendBudget /\ AdapterCleanup(FALSE)
    \/ SendBudget /\ SimpleCleanup(FALSE)
    \/ SendBudget /\ \E e \in SourceEvents(now), rnd \in SuffixChoices(OneSuffix) : Emit(e, rnd)
    \/ Tick

SpecTransform == Init /\ [][TransformNext]_vars

\* the dispatches of the stream callbacks in the last step
Callbacks == IF lastOp.op = "emit" THEN DOMAIN lastOp.calls ELSE {}

\* the fallback message of a module's transformer
Fallback(mod) == IF mod = "adapter" THEN "Unknown error" ELSE "unknown error (zh)"

\* C13: the event a transformer returns is fixed by (stream, phase):
\* lifecycle/start gives session_start with source "startup", lifecycle/end
\* gives stop with the payload's result as response, tool/pre gives
\* pre_tool_use, tool/post gives post_tool_use with success = (the payload has
\* no error), and stream error gives a notification of type "error" whose
\* message is the payload's error, or the fallback when there is none.
C13_VariantByStreamPhase ==
    \A i \in Callbacks :
        LET e == lastOp.evt
            out == lastOp.calls[i].out
        IN /\ (e.stream = "lifecycle" /\ e.data.phase = "start") =>
                  out.type = "session_start" /\ out.source = "startup"
           /\ (e.stream = "lifecycle" /\ e.data.phase = "end") =>
                  out.type = "stop" /\ out.response = e.data.result
           /\ (e.stream = "tool" /\ e.data.phase = "pre") => out.type = "pre_tool_use"
           /\ (e.stream = "tool" /\ e.data.phase = "post") =>
                  /\ out.type = "post_tool_use"
                  /\ out.success = (e.data.error = Undefined)
           /\ e.stream = "error" =>
                  /\ out.type = "notification"
                  /\ out.notificationType = "error"
                  /\ out.message = (IF e.data.error \in {Undefined, ""}
                                    THEN Fallback(lastOp.calls[i].mod) ELSE e.data.error)

\* an error event without an error text, turned into a notification with
\* the fallback message and posted
C13_Witness ==
    \E i \in Callbacks :
        /\ lastOp.evt.stream = "error"
        /\ lastOp.evt.data.error = Undefined
        /\ lastOp.calls[i].post
        /\ lastOp.calls[i].body.message = Fallback(lastOp.calls[i].mod)

\* the payloads the transformers have no output for
Ignored(e) ==
    \/ e.stream \notin {"lifecycle", "tool", "error"}
    \/ e.stream = "lifecycle" /\ e.data.phase \notin {"start", "end"}
    \/ e.stream = "tool" /\ e.data.phase \notin {"pre", "post"}

\* C14: for a payload of stream assistant or of an unknown stream, and for a
\* lifecycle or tool payload with an unhandled phase, the callback returns
\* without output and without throwing, starts no POST and no append, and
\* both correlation tables stay as they are.
C14_IgnoredPayloads ==
    /\ []((lastOp.op = "emit" /\ Ignored(lastOp.evt)) =>
            /\ ~lastOp.threw
            /\ \A i \in Callbacks :
                  LET c == lastOp.calls[i] IN
                  c.out = NoEvent /\ ~c.post /\ ~c.append)
    /\ [][(nOps' # nOps /\ lastOp'.op = "emit" /\ Ignored(lastOp'.evt)) =>
              /\ toolUseStartTime' = toolUseStartTime
              /\ toolStartTimes' = toolStartTimes
              /\ inflight' = inflight]_vars

\* a tool payload with an unhandled phase, handled by a module whose table
\* holds an entry
C14_Witness ==
    /\ lastOp.op = "emit"
    /\ lastOp.evt.stream = "tool"
    /\ lastOp.evt.data.phase = "update"
    /\ \E i \in Callbacks : Table(lastOp.calls[i].mod) # EmptyMap

\* C15 (as stated): the events built from two payloads of the same run carry
\* the same sessionId, whether or not each payload has a session key.
C15_AsStated ==
    [][(nOps' # nOps /\ lastOp.op = "emit" /\ lastOp'.op = "emit"
          /\ lastOp.evt.runId = lastOp'.evt.runId) =>
            \A i \in DOMAIN lastOp.calls, j \in DOMAIN lastOp'.calls :
                (lastOp.calls[i].out # NoEvent /\ lastOp'.calls[j].out # NoEvent) =>
                    lastOp.calls[i].out.sessionId = lastOp'.calls[j].out.sessionId]_vars

\* the toolUseId a tool payload stands for: its own when it has a non-empty
\* one, else sessionId-seq
ExpectedToolUseId(e, sessionId) ==
    IF e.data.toolUseId \notin {Undefined, ""} THEN e.data.toolUseId
    ELSE sessionId \o "-" \o ToString(e.seq)

\* C20: for a tool payload, pre or post, the event built carries the
\* payload's toolUseId when that is non-empty and sessionId-seq otherwise;
\* a pre event's start time is stored under that key, and a post event's
\* duration is computed from the entry under that key.
C20_ToolUseIdKey ==
    \A i \in Callbacks :
        LET e == lastOp.evt
            c == lastOp.calls[i]
            id == ExpectedToolUseId(e, c.out.sessionId)
        IN /\ (e.stream = "tool" /\ e.data.phase \in {"pre", "post"}) =>
                  c.out.toolUseId = id
           /\ (e.stream = "tool" /\ e.data.phase = "pre") =>
                  id \in DOMAIN Table(c.mod) /\ Table(c.mod)[id] = e.ts
           /\ (e.stream = "tool" /\ e.data.phase = "post") =>
                  c.out.duration = (IF id \in DOMAIN Table(c.mod)
                                    THEN Some(e.ts - Table(c.mod)[id]) ELSE None)

\* a post payload without a toolUseId, with a session key, whose duration
\* comes from the entry a pre payload left under sk1-2
C20_Witness ==
    \E i \in Callbacks :
        /\ lastOp.evt.stream = "tool"
        /\ lastOp.evt.data.phase = "post"
        /\ lastOp.evt.data.toolUseId = Undefined
        /\ lastOp.calls[i].out.toolUseId = "sk1-2"
        /\ lastOp.calls[i].out.duration # None

\* ------------------------------------------------------- working directory
\* the cwd option of setupVibecraftIntegration / enableVibecraft
CwdOverride == "/override"

\* a program that enables the integrations with and without a cwd option,
\* changes its working directory, emits events and sends by hand
CwdConfigs == {[enabled |-> TRUE], [enabled |-> TRUE, cwd |-> CwdOverride]}

CwdNext ==
    \/ SendBudget /\ \E u \in CwdConfigs : setupVibecraftIntegration(u)
    \/ SendBudget /\ \E u \in CwdConfigs, r \in OneSuffix : enableVibecraft(u, r)
    \/ SendBudget /\ \E d \in Dirs : chdir(d)
    \/ SendBudget /\ \E e \in DeliveryEvents(now), rnd \in SuffixChoices(OneSuffix) : Emit(e, rnd)
    \/ SendBudget /\ \E m \in Mods, r \in OneSuffix : ManualTool(m, r)
    \/ SendBudget /\ \E m \in Mods, fn \in {"prompt", "stop"}, r \in OneSuffix : ManualSingle(m, fn, r)
    \/ SendBudget /\ onLoad(EmptyMap)
    \/ SendBudget /\ \E h \in HookNames : HookCall(h)
    \/ \E d \in DeliveryTypes, r \in OneSuffix : Respond(d, "ok", r)
    \/ Tick

SpecCwd == Init /\ [][CwdNext]_vars

\* whether the configuration in force for a module holds the cwd option
Overridden(mod) ==
    CASE mod = "adapter" -> config.cwd = CwdOverride
      [] mod = "simple" -> options.cwd = CwdOverride
      [] OTHER -> FALSE

\* the events the last step has built
Built == {i \in DOMAIN lastOp.calls : lastOp.calls[i].out # NoEvent}

\* C17 (as stated): with no cwd option in force, every event built reports
\* the working directory the process is in when the event is built, also
\* after the process has changed directory.
C17_AsStated ==
    \A i \in Built :
        ~Overridden(lastOp.calls[i].mod) => lastOp.calls[i].out.cwd = processCwd

\* C18 (as stated): with a cwd option in force, every event built - from the
\* stream or by a manual send function - reports the option's directory.
C18_AsStated ==
    \A i \in Built :
        Overridden(lastOp.calls[i].mod) => lastOp.calls[i].out.cwd = CwdOverride

\* ----------------------------------------------------------------- defaults
\* a program that never passes the enabled option: it calls the three entry
\* points with the other options only, emits events, has hooks run and sends
\* by hand
AdapterCallsWithoutEnabled == {EmptyMap, [eventsFilePath |-> EventsPath], [debug |-> TRUE]}

SimpleCallsWithoutEnabled == {EmptyMap, [debug |-> TRUE]}

DefaultsNext ==
    \/ SendBudget /\ \E u \in AdapterCallsWithoutEnabled : setupVibecraftIntegration(u)
    \/ SendBudget /\ \E u \in SimpleCallsWithoutEnabled, r \in OneSuffix : enableVibecraft(u, r)
    \/ SendBudget /\ onLoad(EmptyMap)
    \/ SendBudget /\ \E e \in DeliveryEvents(now), rnd \in SuffixChoices(OneSuffix) : Emit(e, rnd)
    \/ SendBudget /\ \E h \in HookNames : HookCall(h)
    \/ SendBudget /\ \E m \in Mods, fn \in {"prompt", "stop"}, r \in OneSuffix : ManualSingle(m, fn, r)
    \/ \E d \in DeliveryTypes, r \in OneSuffix : Respond(d, "ok", r)
    \/ \E d \in DeliveryTypes : AppendDone(d, "ok")
    \/ Tick

SpecDefaults == Init /\ [][DefaultsNext]_vars

\* C16 (as stated): whichever entry points have been called without the
\* enabled option, nothing is subscribed to the stream, no hook is registered
\* and no step starts a POST or an append.
C16_AsStated ==
    /\ listeners = {}
    /\ hooks = 0
    /\ \A i \in DOMAIN lastOp.calls : ~lastOp.calls[i].post /\ ~lastOp.calls[i].append

\* C16 (amended): setupVibecraftIntegration and enableVibecraft called
\* without the enabled option leave the module's flag off, subscribe nothing
\* and send nothing; the flag of the adapter is turned on only by the
\* plugin's onLoad, that of the simple integration by nothing, and no module
\* starts a POST while its flag is off. onLoad called without the enabled
\* option registers the plugin's hooks, subscribes the adapter's callback
\* and turns the adapter's flag on.
C16_DefaultsOffButPlugin ==
    /\ [](\A i \in DOMAIN lastOp.calls :
              lastOp.calls[i].post => ~Disabled(lastOp.calls[i].mod))
    /\ [][(nOps' # nOps /\ lastOp'.op = "setup") =>
              /\ ~config'.enabled
              /\ listeners' = listeners /\ hooks' = hooks
              /\ DOMAIN lastOp'.calls = {}]_vars
    /\ [][(nOps' # nOps /\ lastOp'.op = "enable") =>
              /\ ~options'.enabled
              /\ listeners' = listeners /\ hooks' = hooks
              /\ DOMAIN lastOp'.calls = {}]_vars
    /\ [][(~config.enabled /\ config'.enabled) => lastOp'.op = "onLoad"]_vars
    /\ [][~options'.enabled]_vars
    /\ [][(nOps' # nOps /\ lastOp'.op = "onLoad") =>
              /\ pluginConfig'.enabled /\ config'.enabled
              /\ hooks' = hooks + 1
              /\ \E l \in listeners' : l \notin listeners /\ l.mod = "adapter"]_vars

\* a source event handled by nobody after both setupVibecraftIntegration and
\* enableVibecraft have been called without the enabled option
C16_Witness ==
    /\ lastOp.op = "emit"
    /\ DOMAIN lastOp.calls = {}
    /\ cleanups["adapter"]["noop"].uncalled > 0
    /\ cleanups["simple"]["noop"].uncalled > 0

\* a step in which the callbacks transform a post-phase tool event
PostStep(op) == op.op = "emit" /\ op.evt.stream = "tool" /\ op.evt.data.phase = "post"

\* C19: transforming a post-phase tool event leaves both correlation tables
\* as they are; the keys of a table go away only in a teardown call that
\* empties the table, so an entry stays until then whether or not its post
\* event arrives; and two post events in a row with the same toolUseId read
\* the same start time, each duration being its own timestamp minus it.
C19_PostLeavesTable ==
    /\ [][(nOps' # nOps /\ PostStep(lastOp')) =>
              toolUseStartTime' = toolUseStartTime /\ toolStartTimes' = toolStartTimes]_vars
    /\ [][\A m \in Mods :
              \/ \A id \in DOMAIN Table(m) :
                    id \in DOMAIN Table(m)' /\ (Table(m)')[id] >= Table(m)[id]
              \/ TeardownStep(lastOp'.op) /\ Table(m)' = EmptyMap]_vars
    /\ [][(nOps' # nOps /\ PostStep(lastOp) /\ PostStep(lastOp')
             /\ lastOp'.evt.data.toolUseId = lastOp.evt.data.toolUseId) =>
              \A i \in DOMAIN lastOp.calls \cap DOMAIN lastOp'.calls :
                  /\ lastOp'.calls[i].startAt = lastOp.calls[i].startAt
                  /\ lastOp.calls[i].startAt # None =>
                        lastOp'.calls[i].out.duration =
                            Some(lastOp'.evt.ts - lastOp.calls[i].startAt[1])]_vars

\* a post event transformed after the clock has moved on: its duration was
\* computed from the entry, and the entry is still in the table afterwards
C19_Witness ==
    \E i \in ToolPosts :
        LET c == lastOp.calls[i] IN
        /\ c.startAt # None
        /\ c.out.duration = Some(lastOp.evt.ts - c.startAt[1])
        /\ c.out.toolUseId \in DOMAIN Table(c.mod)
        /\ lastOp.evt.ts > c.startAt[1]
        /\ Table(c.mod)[c.out.toolUseId] = c.startAt[1]

\* ----------------------------------------------------------------- sessions
\* a payload of another run of the host
InRun(evt, runId, sessionKey) == [evt EXCEPT !.runId = runId, !.sessionKey = sessionKey]

\* tool events of two runs, one with a session key and one without, that
\* carry the same toolUseId
SessionEvents(clock) ==
    {InRun(AgentEvent("tool", ph, "t1", clock, 1), s[1], s[2]) :
        ph \in {"pre", "post"}, s \in {<<"run1", Undefined>>, <<"run2", "sk1">>}}

\* a program that enables and tears down the two integrations while the host
\* emits the tool events of the two runs
SessionsNext ==
    \/ Budget /\ \E u \in {[enabled |-> TRUE], [enabled |-> FALSE]} : setupVibecraftIntegration(u)
    \/ Budget /\ AdapterCleanup(FALSE)
    \/ Budget /\ AdapterNoop(FALSE)
    \/ Budget /\ \E r \in OneSuffix : enableVibecraft([enabled |-> TRUE], r)
    \/ Budget /\ SimpleCleanup(FALSE)
    \/ Budget /\ \E e \in SessionEvents(now), rnd \in SuffixChoices(OneSuffix) : Emit(e, rnd)
    \/ Tick

SpecSessions == Init /\ [][SessionsNext]_vars

Subscriptions(mod) == {l \in listeners : l.mod = mod}

\* C22 (as stated): whatever setup/enable and teardown calls have been made,
\* a module has at most one active subscription, and a source event is
\* transformed and dispatched at most once by each module.
C22_AsStated ==
    /\ \A m \in Mods : Cardinality(Subscriptions(m)) <= 1
    /\ lastOp.op = "emit" =>
          \A m \in Mods :
              Cardinality({i \in DOMAIN lastOp.calls : lastOp.calls[i].mod = m}) <= 1

\* ------------------------------------------------------------- side by side
\* a program that enables the adapter and then the simple integration with
\* the same options, after which the host emits any payloads: the two
\* transformers run on the same events from empty tables
SideBySideNext ==
    \/ nOps = 0 /\ setupVibecraftIntegration([enabled |-> TRUE])
    \/ nOps = 1 /\ \E r \in OneSuffix : enableVibecraft([enabled |-> TRUE], r)
    \/ nOps > 1 /\ nOps < MaxOps - 1
         /\ \E e \in SourceEvents(now), rnd \in SuffixChoices(OneSuffix) : Emit(e, rnd)
    \/ Tick

SpecSideBySide == Init /\ [][SideBySideNext]_vars

\* the fields in which two events are compared: all but the id and, for an
\* error payload without an error text, the message
ComparedFields(e, out) ==
    DOMAIN out \ ({"id"} \cup IF e.stream = "error" /\ e.data.error \in {Undefined, ""}
                             THEN {"message"} ELSE {})

\* two events of the same variant with the same fields
SameEvent(e, a, s) ==
    /\ DOMAIN a = DOMAIN s
    /\ \A k \in ComparedFields(e, a) : a[k] = s[k]

\* C23: on the same payloads, from empty tables, transformAgentEvent and
\* transformEvent return events of the same variant with the same fields
\* (the id and the fallback message text apart), or both none, their
\* serializations have the same fields, and the two tables stay equal.
C23_TransformersAgree ==
    /\ toolUseStartTime = toolStartTimes
    /\ lastOp.op = "emit" =>
          \A i, j \in DOMAIN lastOp.calls :
              (lastOp.calls[i].mod = "adapter" /\ lastOp.calls[j].mod = "simple") =>
                  /\ SameEvent(lastOp.evt, lastOp.calls[i].out, lastOp.calls[j].out)
                  /\ lastOp.calls[i].startAt = lastOp.calls[j].startAt
                  /\ lastOp.calls[i].out # NoEvent =>
                        DOMAIN JSONstringify(lastOp.calls[i].out)
                            = DOMAIN JSONstringify(lastOp.calls[j].out)

\* a post event for which both transformers computed the duration 1 from
\* the one entry their tables hold
C23_Witness ==
    /\ lastOp.op = "emit"
    /\ \E i, j \in DOMAIN lastOp.calls :
          /\ lastOp.calls[i].mod = "adapter" /\ lastOp.calls[j].mod = "simple"
          /\ lastOp.calls[i].out.type = "post_tool_use"
          /\ lastOp.calls[i].out.duration = Some(1)
          /\ lastOp.calls[j].out.duration = Some(1)
    /\ Cardinality(DOMAIN toolUseStartTime) = 1

\* ------------------------------------------------------ sends by the program
\* a program that enables the two integrations, on or off, sends tool events
\* by hand while the host emits events, and the POSTs completing
ManualNext ==
    \/ SendBudget /\ \E u \in {[enabled |-> TRUE], [enabled |-> FALSE]} : setupVibecraftIntegration(u)
    \/ SendBudget /\ \E u \in SimpleUserOptions, r \in OneSuffix : enableVibecraft(u, r)
    \/ SendBudget /\ \E e \in DeliveryEvents(now), rnd \in SuffixChoices(OneSuffix) : Emit(e, rnd)
    \/ SendBudget /\ \E m \in Mods, r \in OneSuffix : ManualTool(m, r)
    \/ \E d \in DeliveryTypes, o \in PostOutcomes, r \in OneSuffix : Respond(d, o, r)
    \/ \E d \in DeliveryTypes, r \in OneSuffix : Abort(d, r)
    \/ Tick

SpecManual == Init /\ [][ManualNext]_vars

\* the steps in which a POST completes
SettleOps == {"settle-" \o o : o \in PostOutcomes \cup {"timeout"}}

\* the steps of sendToolUse / sendToolEvent: the call up to its first await,
\* and the completion of the POST of its pre event
ManualToolStep(before, op) ==
    \/ op.op = "manual-tool"
    \/ /\ op.op \in SettleOps
       /\ op.mod \in Mods
       /\ before[op.mod].pc = "pre"
       /\ op.calls # NoCalls

\* C24: sendToolUse / sendToolEvent start the POST of the post event only
\* once the POST of the pre event has completed (answered, failed or timed
\* out), so the two are never in flight together; the post event carries
\* the pre event's toolUseId and duration = its timestamp - the pre event's
\* timestamp; and the functions neither read nor write the tables.
C24_ManualPostAfterPre ==
    /\ [](\A m \in Mods : inflight[Delivery(m, "post", "manual")] <= 1)
    /\ [][((nOps' # nOps \/ manual' # manual) /\ ManualToolStep(manual, lastOp')) =>
            LET calls == lastOp'.calls
                mod == lastOp'.mod
                d == Delivery(mod, "post", "manual")
            IN /\ toolUseStartTime' = toolUseStartTime
               /\ toolStartTimes' = toolStartTimes
               /\ \A i \in DOMAIN calls : calls[i].startAt = None
               /\ IF lastOp'.op = "manual-tool"
                  THEN /\ calls[1].out.type = "pre_tool_use"
                       /\ inflight[d] = 0
                       /\ IF calls[1].post
                          THEN /\ Len(calls) = 1
                               /\ inflight'[d] = 1
                               /\ manual'[mod].pc = "pre"
                               /\ manual'[mod].toolUseId = calls[1].out.toolUseId
                               /\ manual'[mod].startTime = calls[1].out.timestamp
                          ELSE /\ Len(calls) = 2
                               /\ calls[2].out.type = "post_tool_use"
                               /\ calls[2].out.toolUseId = calls[1].out.toolUseId
                               /\ calls[2].out.duration =
                                     Some(calls[2].out.timestamp - calls[1].out.timestamp)
                  ELSE /\ Len(calls) = 1
                       /\ calls[1].out.type = "post_tool_use"
                       /\ calls[1].out.toolUseId = manual[mod].toolUseId
                       /\ calls[1].out.duration =
                             Some(calls[1].out.timestamp - manual[mod].startTime)
                       /\ inflight[d] = 1
                       /\ inflight'[d] = (IF calls[1].post THEN 1 ELSE 0)]_vars

\* the POST of a pre event has completed one clock tick after it was
\* started, and the post event is posted with duration 1
C24_Witness ==
    /\ lastOp.op \in SettleOps
    /\ lastOp.calls # NoCalls
    /\ lastOp.calls[1].out.type = "post_tool_use"
    /\ lastOp.calls[1].post
    /\ lastOp.calls[1].out.duration = Some(1)
    /\ manual[lastOp.mod].pc = "post"

====
